---- MODULE Spec2Model ----
(***************************************************************************)
(* Account lifecycle and request gating of the MamaCare backend.           *)
(*                                                                         *)
(* The repository holds two revisions of the same Express server:          *)
(*   src/unnamed/part_000  (helmet, rate limiter, startup validation,      *)
(*                          auto-login on verify)                          *)
(*   src/server.js         (default signing secret, no auto-login)         *)
(* The variable rev says which revision the process runs; every handler    *)
(* is translated once and branches on rev where the two files differ.      *)
(*                                                                         *)
(* A handler is an async function: between two awaits it runs atomically   *)
(* on the event loop.  One action models one such stretch that touches     *)
(* shared state (the users table, the mail gateway, the response).  The    *)
(* synchronous validation at the top of a handler, createConnection and    *)
(* the first SELECT are one action: nothing before the SELECT reads or     *)
(* writes shared state.  bcrypt.hash / jwt.sign / db.end are folded into   *)
(* the stretch that follows the statement they feed.                       *)
(*                                                                         *)
(* Not modelled: the display name column (carried, never tested), the      *)
(* mail credentials check (EMAIL_USER / EMAIL_PASS are assumed set), the   *)
(* bcrypt salt (a digest is the pair "hash of <plaintext>").               *)
(***************************************************************************)
EXTENDS Integers, Sequences, FiniteSets, Bags, TLC

(* ------------------------------ bounds --------------------------------- *)
\* number of requests that may be in flight at the same time
MaxInFlight == 2
\* number of requests started in one behaviour
MaxRequests == 3
\* number of clock advances in one behaviour
MaxTicks == 2
\* number of clock advances in one behaviour of the rate limiter
MaxElapses == 1
\* requests a client sends to the sensitive routes within a window beyond
\* the limiter's ceiling, and requests the other clients send meanwhile
MaxOver == 2
\* rows of the schedules and milestones tables together
MaxRecords == 2
\* Math.random() is explored on the multiples of 1 / MaxGrid in [0, 1) and
\* on the MaxBelowOne doubles next below 1
MaxGrid == 2048
MaxBelowOne == 64

(* --------------------------- program constants ------------------------- *)
\* jwt.sign(..., { expiresIn: "1h" }), in seconds
ExpiresIn == 3600
\* Math.floor(100000 + Math.random() * 900000)
CodeBase == 100000
CodeSpan == 900000
\* process.env.JWT_SECRET || "your_jwt_secret_123"
DefaultSecret == "your_jwt_secret_123"

(* ------------------------------ values --------------------------------- *)
\* JavaScript values of a JSON body field: a string, a number (kept by its
\* digits) or undefined.
Str(s) == [t |-> "string", v |-> s]
Num(n) == [t |-> "number", v |-> n]
Undef == [t |-> "undefined", v |-> ""]
\* the same for the verification code, a string of decimal digits
UndefCode == [t |-> "undefined", v |-> <<>>]
\* !x  for the values above (the empty string is not among them)
Falsy(x) == x.t = "undefined"

Emails == {"ama@x.com", "kofi@x.com"}
Revisions == {"part_000", "server.js"}
\* the environment's JWT_SECRET: set, or absent ("")
EnvSecrets == {"", "s3cr3t"}
\* values Math.random() returns, as <<numerator, denominator>> in [0, 1)
Randoms == {<<0, 2000>>, <<1999, 2000>>}
\* seconds by which the clock advances in one step
TickSteps == {120, 3540}

\* Number.prototype.toString for a non-negative integer: its decimal digits
RECURSIVE ToDigits(_)
ToDigits(n) == IF n < 10 THEN <<n>> ELSE Append(ToDigits(n \div 10), n % 10)

\* A value of Math.random() is <<n, d>>, the number n / d, or <<m>>, the
\* m-th double below 1, which is 1 - m * 2^-53.
\* (1 - m * 2^-53) * 900000 in IEEE 754 double arithmetic: the product lies
\* in [2^19, 2^20), where doubles are 2^-33 apart, so the exact value
\* 900000 - 900000 * m * 2^-53 is rounded to the nearest multiple of 2^-33,
\* a tie to the even one.  The result is 900000 - UlpsBelow(m) * 2^-33.
UlpsBelow(m) ==
  LET x == CodeSpan * m
      a == x \div (2 ^ 20)
      b == x % (2 ^ 20)
  IN IF b < 2 ^ 19 THEN a
     ELSE IF b > 2 ^ 19 THEN a + 1
     ELSE IF a % 2 = 0 THEN a ELSE a + 1

\* variant of FloorCode: Math.round where the code has Math.floor
FloorCode_Round(r) ==
  IF Len(r) = 2
    THEN CodeBase + ((r[1] * CodeSpan) \div r[2])
           + (IF 2 * ((r[1] * CodeSpan) % r[2]) >= r[2] THEN 1 ELSE 0)
    ELSE CodeBase + CodeSpan

\* Math.floor(100000 + Math.random() * 900000).  For n / d the product and
\* the sum are taken exactly (they are exact in doubles when d is a power of
\* two up to 2^11); for the m-th double below 1 the sum 100000 + (900000 -
\* UlpsBelow(m) * 2^-33) is itself a double, below 1000000 unless the product
\* was rounded up to 900000
FloorCode(r) ==
  IF Len(r) = 2
    THEN CodeBase + ((r[1] * CodeSpan) \div r[2])
    ELSE IF UlpsBelow(r[1]) = 0 THEN CodeBase + CodeSpan
         ELSE CodeBase + CodeSpan - 1

\* Math.floor(100000 + Math.random() * 900000).toString()
GenCode(r) == ToDigits(FloorCode(r))

\* the values of Math.random() the verification code is computed for
CodeRandoms ==
  {<<n, MaxGrid>> : n \in 0..(MaxGrid - 1)} \cup {<<m>> : m \in 1..MaxBelowOne}

\* bcrypt.hash(s, 10): rejects unless s is a string
NullHash == [t |-> "null", plain |-> ""]
\* verification_code = NULL
NullCode == [t |-> "null", plain |-> <<>>]
HashThrows(s) == s.t # "string"
Hash(s) == [t |-> "hash", plain |-> s.v]

\* bcrypt.compare(s, hash): rejects with "Illegal arguments" unless both are
\* strings (a NULL column is not), otherwise resolves to the match
CompareThrows(s, h) == s.t # "string" \/ h.t # "hash"
\* variant of Compare: the promise is tested where its value is meant (the
\* await is missing), and a promise is truthy
Compare_NoAwait(s, h) == TRUE
Compare(s, h) == s.v = h.plain

(* ------------------------------ tokens --------------------------------- *)
\* HS256 signature: determined by the secret and the signed payload
Signature(secret, userId, email, iat, exp) == <<secret, userId, email, iat, exp>>

NoToken == [form |-> "none", userId |-> 0, email |-> "", iat |-> 0, exp |-> 0, sig |-> <<>>]
Malformed == [NoToken EXCEPT !.form = "malformed"]

\* variant of JwtSign: expiresIn: "2h"
JwtSign_TwoHours(secret, userId, email, now) ==
  [form |-> "jwt", userId |-> userId, email |-> email, iat |-> now,
   exp |-> now + 2 * ExpiresIn,
   sig |-> Signature(secret, userId, email, now, now + 2 * ExpiresIn)]

\* jwt.sign({ userId, email }, secret, { expiresIn: "1h" }) at time now
JwtSign(secret, userId, email, now) ==
  [form |-> "jwt", userId |-> userId, email |-> email, iat |-> now,
   exp |-> now + ExpiresIn,
   sig |-> Signature(secret, userId, email, now, now + ExpiresIn)]

\* jwt.verify(token, secret) at time now: TRUE when no error is reported
JwtVerify(tok, secret, now) ==
  /\ tok.form = "jwt"
  /\ tok.sig = Signature(secret, tok.userId, tok.email, tok.iat, tok.exp)
  /\ now < tok.exp

(* ------------------------------- inputs -------------------------------- *)
\* request bodies the clients send
NameInputs == {Str("Ama"), Undef}
EmailInputs == {Str(e) : e \in Emails} \cup {Str("ama.x.com"), Undef}
SignupPasswords == {Str("password1"), Num("12345678"), Undef}
LoginPasswords == {Str("password1"), Str("password2"), Num("12345678"), Undef}
CodeInputs == {Str(GenCode(r)) : r \in Randoms}
                \cup {Str(<<1, 2, 3>>), Num(GenCode(<<0, 2000>>)), UndefCode}

\* bodies with a name of 256 characters or a password of 5
LongNameInputs == NameInputs \cup {Str("Ama...")}
ShortPasswordInputs == SignupPasswords \cup {Str("short")}

\* String.prototype.length of the strings above
Length(x) ==
  CASE x.v = "password1" -> 9
    [] x.v = "password2" -> 9
    [] x.v = "short" -> 5
    [] x.v = "Ama" -> 3
    [] x.v = "Ama..." -> 256
    [] OTHER -> 9

\* /^[^\s@]+@[^\s@]+\.[^\s@]+$/.test(email), on the inputs above
EmailRegexTest(x) == x.t = "string" /\ x.v \in Emails

\* name.length > 255 || email.length > 255 || password.length < 8
\* (x.length is undefined for a number, and every comparison with it false)
InvalidLengths(name, email, password) ==
  \/ name.t = "string" /\ Length(name) > 255
  \/ email.t = "string" /\ Length(email) > 255
  \/ password.t = "string" /\ Length(password) < 8

(* ------------------------ rate limiter: values ------------------------- *)
\* the clients (req.ip) that send requests
Clients == {"10.0.0.1", "10.0.0.2"}

\* the paths clients request
Routes == {"/api/signup", "/api/login", "/api/verify-email", "/api/contact",
           "/api/babies"}

\* seconds by which the clock advances between two requests
WindowSteps == {600, 900}

\* variant of LimiterOptions: the window given in seconds where the library
\* reads milliseconds
LimiterOptions_WindowInSeconds == [windowMs |-> 15 * 60, max |-> 100]

\* rateLimit({ windowMs: 15 * 60 * 1000, max: 100 })
LimiterOptions == [windowMs |-> 15 * 60 * 1000, max |-> 100]

\* variant of KeyOf: keyGenerator: () => "*", one count for every client
KeyOf_Global(client) == "*"

\* the key a request is counted under: no keyGenerator option is given, so
\* the client address
KeyOf(client) == client
Keys == Clients \cup {"*"}

NoWindow == -1
\* client, route: who requested which path; counted: the limiter saw the
\* request; n: its hit number; status: 429 or 0 (next() called); ran: the
\* handler ran; wasOver: the request began a new window for a key that was
\* over the ceiling in the window before
NoDecision == [client |-> "", route |-> "", counted |-> FALSE, n |-> 0,
               status |-> 0, ran |-> FALSE, wasOver |-> FALSE]

(* ------------------------ protected routes: values -------------------- *)
\* the tables with a baby_id column whose POST route takes it from the body
\* and whose GET route lists by the caller's babies
Tables == {"schedules", "milestones"}

\* no GET answered yet
NoListing == [table |-> "", userId |-> 0, rows |-> {}]

(* ------------------------------- state --------------------------------- *)
VARIABLES
  rev,        \* the revision the process runs
  envSecret,  \* process.env.JWT_SECRET ("" when not defined)
  proc,       \* "starting", "listening" or "exited"
  secret,     \* the secret jwt.sign and jwt.verify are called with
  users,      \* rows of the users table
  nextId,     \* AUTO_INCREMENT of users.id
  babies,     \* rows of the babies table
  inflight,   \* bag of the requests suspended at an await
  last,       \* the response sent most recently
  clock,      \* seconds since the process started
  ticks,      \* clock advances so far
  started,    \* requests started so far
  issued,     \* tokens handed out in responses
  created,    \* per email, the number of signups answered 201
  codeOf,     \* per email, the plaintext code generated at signup
  hits,       \* rate limiter: per client key, the requests counted in its window
  windowStart,\* rate limiter: per client key, when its window began (-1: none)
  decision,   \* the rate limiter's most recent decision
  admitted,   \* rate limiter: per client key, the requests of its window that
              \* were let through to their handler
  records,    \* rows of the schedules and milestones tables
  listing,    \* the rows the most recent GET of one of them answered with
  successes,  \* per email, the verify-email requests answered 200
  answered,   \* responses sent so far
  connections \* database connections open (createConnection without db.end)

\* the state of the rate limiter
limiterVars == <<hits, windowStart, decision, admitted>>

\* the tables behind the protected routes (babies apart) and their listings
recordVars == <<records, listing>>

\* what the handlers hold or have given back
requestVars == <<answered, connections>>

vars == <<rev, envSecret, proc, secret, users, nextId, babies, inflight, last,
          clock, ticks, started, issued, created, codeOf, limiterVars,
          recordVars, successes, requestVars>>

NoUser == [id |-> 0, email |-> "", password |-> NullHash,
           verification_code |-> NullCode, is_verified |-> FALSE]

\* req.user before authenticateToken has set it
NoIdentity == [userId |-> 0, email |-> ""]

\* the locals of a handler suspended at an await
Suspended(op, pc, email, hashedPassword, vcode, user, token, found) ==
  [op |-> op, pc |-> pc, email |-> email, hashedPassword |-> hashedPassword,
   vcode |-> vcode, user |-> user, token |-> token, found |-> found]

\* no response yet.  Beside the response (status, message, token) the record
\* keeps what the request was: its email, password (pw), code or header (hdr,
\* hkind), what its lookup saw (found), how its mail went (mail), whether the
\* handler behind the gate ran and with which req.user (ran, identity)
NoResponse ==
  [op |-> "none", email |-> "", status |-> 0, message |-> "", token |-> NoToken,
   found |-> "", mail |-> "", pw |-> "", code |-> <<>>, hkind |-> "",
   hdr |-> NoToken, at |-> 0, ran |-> FALSE, identity |-> NoIdentity]

\* res.status(status).json({ message, token }); found is what the handler's
\* lookup saw, at is the time of the response (kept when it carries a token)
Respond(op, email, status, message, tok, found, now) ==
  [NoResponse EXCEPT !.op = op, !.email = email, !.status = status,
                     !.message = message, !.token = tok, !.found = found,
                     !.at = IF tok.form = "none" THEN 0 ELSE now]

CanStart == proc = "listening" /\ started < MaxRequests
CanSuspend == BagCardinality(inflight) < MaxInFlight
Waiting(q, op, pc) == BagIn(q, inflight) /\ q.op = op /\ q.pc = pc
Resume(q) == inflight (-) SetToBag({q})

\* SELECT * FROM users WHERE email = ?
SelectByEmail(e) == {u \in users : u.email = e}
\* users[0]
FirstRow(rows) == CHOOSE u \in rows : \A w \in rows : u.id <= w.id
\* what a lookup found, for the record
Found(rows) ==
  IF rows = {} THEN "none"
  ELSE IF FirstRow(rows).is_verified THEN "active" ELSE "pending"

\* the users table declares email UNIQUE: an INSERT of a present email fails
DuplicateEntry(e) == SelectByEmail(e) # {}

\* answered, after res.status(...).json(...) was called with resp; a handler
\* that comes to its end without that call has sent nothing
Answered(resp) == IF resp.op = "none" THEN answered ELSE answered + 1

\* the connections the first stretch of a handler leaves open: the one of the
\* request now suspended at an await, or the one createConnection opened
\* before a rejection took the handler to its catch block, which answers 500
\* and has no db.end() (db is declared inside the try block)
LeftOpen(resp, suspended) == IF suspended \/ resp.status = 500 THEN 1 ELSE 0

Init ==
  /\ rev \in Revisions
  /\ envSecret \in EnvSecrets
  /\ proc = "starting"
  /\ secret = ""
  /\ users = {}
  /\ nextId = 1
  /\ babies = {}
  /\ inflight = EmptyBag
  /\ last = NoResponse
  /\ clock = 0
  /\ ticks = 0
  /\ started = 0
  /\ issued = {}
  /\ created = [e \in Emails |-> 0]
  /\ codeOf = [e \in Emails |-> <<>>]
  /\ hits = [k \in Keys |-> 0]
  /\ windowStart = [k \in Keys |-> NoWindow]
  /\ decision = NoDecision
  /\ admitted = [k \in Keys |-> 0]
  /\ records = {}
  /\ listing = NoListing
  /\ successes = [e \in Emails |-> 0]
  /\ answered = 0
  /\ connections = 0

\* top of the file down to app.listen
Boot ==
  /\ proc = "starting"
  /\ IF rev = "part_000"
       THEN IF envSecret = ""
              THEN proc' = "exited" /\ secret' = secret
              ELSE proc' = "listening" /\ secret' = envSecret
       ELSE /\ proc' = "listening"
            /\ secret' = IF envSecret = "" THEN DefaultSecret ELSE envSecret
  /\ UNCHANGED <<limiterVars, recordVars, successes, requestVars, rev, envSecret, users,
                 nextId, babies, inflight, last, clock, ticks, started, issued,
                 created, codeOf>>

\* time passes.  The steps are minutes and a request is served within
\* seconds, so no request is suspended across a step; nothing reads the clock
\* before the first token is signed, so the clock starts with it.
Tick(d) ==
  /\ proc = "listening"
  /\ ticks < MaxTicks
  /\ inflight = EmptyBag
  /\ issued # {}
  /\ clock' = clock + d
  /\ ticks' = ticks + 1
  /\ UNCHANGED <<limiterVars, recordVars, successes, requestVars, rev, envSecret, proc,
                 secret, users, nextId, babies, inflight, last, started, issued,
                 created, codeOf>>

(* ------------------------------- signup -------------------------------- *)
\* POST /api/signup, from the top of the handler to the await of the INSERT:
\* validation, SELECT by email, bcrypt.hash of the password and of the code
SignupStart(name, email, password, r) ==
  /\ CanStart
  /\ started' = started + 1
  /\ LET rows == SelectByEmail(email.v)
         e == IF email.t = "string" THEN email.v ELSE ""
     IN IF Falsy(name) \/ Falsy(email) \/ Falsy(password)
          THEN /\ last' = Respond("signup", e, 400,
                                  "Missing required fields: name, email, password",
                                  NoToken, "", clock)
               /\ inflight' = inflight
        ELSE IF ~EmailRegexTest(email)
          THEN /\ last' = Respond("signup", e, 400, "Invalid email format",
                                  NoToken, "", clock)
               /\ inflight' = inflight
        ELSE IF rev = "part_000" /\ InvalidLengths(name, email, password)
          THEN /\ last' = Respond("signup", e, 400, "Invalid input lengths",
                                  NoToken, "", clock)
               /\ inflight' = inflight
        ELSE IF rows # {}
          THEN /\ last' = Respond("signup", e, 400, "Email already registered",
                                  NoToken, Found(rows), clock)
               /\ inflight' = inflight
        ELSE IF HashThrows(password)
          THEN /\ last' = Respond("signup", e, 500, "Failed to register user",
                                  NoToken, "none", clock)
               /\ inflight' = inflight
        ELSE /\ CanSuspend
             /\ inflight' = inflight (+) SetToBag({
                  Suspended("signup", "insert", e, Hash(password), GenCode(r),
                            NoUser, NoToken, "none")})
             /\ last' = last
  /\ answered' = IF inflight' = inflight THEN answered + 1 ELSE answered
  /\ connections' = connections + LeftOpen(last', inflight' # inflight)
  /\ UNCHANGED <<limiterVars, recordVars, successes, rev, envSecret, proc,
                 secret, users, nextId, babies, clock, ticks, issued, created,
                 codeOf>>

\* variant of SignupCatch: the rejected INSERT is logged and the handler
\* answers as if the row had been written
SignupCatch_AnswersCreated(q) ==
  Respond("signup", q.email, 201,
          "User registered successfully! Please check your email for the verification code.",
          NoToken, "duplicate", clock)

\* variant of SignupCatch: the catch block logs the error and sends nothing
SignupCatch_Silent(q) == NoResponse

\* catch (error) of the signup handler, entered from the rejected INSERT
SignupCatch(q) ==
  Respond("signup", q.email, 500, "Failed to register user", NoToken,
          "duplicate", clock)

\* created, after a signup response
Tally(resp) ==
  IF resp.status = 201 THEN [created EXCEPT ![resp.email] = @ + 1] ELSE created

\* variant of SignupInsert: REPLACE INTO users, which overwrites the row of an
\* email that is already there
SignupInsert_Replace(q) ==
  /\ Waiting(q, "signup", "insert")
  /\ users' = {u \in users : u.email # q.email} \cup
       {[id |-> nextId, email |-> q.email, password |-> q.hashedPassword,
         verification_code |-> Hash(Str(q.vcode)), is_verified |-> FALSE]}
  /\ nextId' = nextId + 1
  /\ codeOf' = [codeOf EXCEPT ![q.email] = q.vcode]
  /\ inflight' = Resume(q) (+) SetToBag({[q EXCEPT !.pc = "mail"]})
  /\ UNCHANGED <<limiterVars, recordVars, last, created, successes, requestVars, rev,
                 envSecret, proc, secret, babies, clock, ticks, started,
                 issued>>

\* variant of SignupInsert: INSERT ... ON DUPLICATE KEY UPDATE
\* verification_code = VALUES(verification_code), which gives the row of an
\* email that is already there the code of this request and mails it
SignupInsert_Upsert(q) ==
  /\ Waiting(q, "signup", "insert")
  /\ users' =
       IF DuplicateEntry(q.email)
         THEN {IF u.email = q.email
                 THEN [u EXCEPT !.verification_code = Hash(Str(q.vcode))]
                 ELSE u : u \in users}
         ELSE users \cup
                {[id |-> nextId, email |-> q.email, password |-> q.hashedPassword,
                  verification_code |-> Hash(Str(q.vcode)), is_verified |-> FALSE]}
  /\ nextId' = IF DuplicateEntry(q.email) THEN nextId ELSE nextId + 1
  /\ codeOf' = [codeOf EXCEPT ![q.email] = IF @ = <<>> THEN q.vcode ELSE @]
  /\ inflight' = Resume(q) (+) SetToBag({[q EXCEPT !.pc = "mail"]})
  /\ UNCHANGED <<limiterVars, recordVars, last, created, successes, requestVars,
                 rev, envSecret, proc, secret, babies, clock, ticks, started,
                 issued>>

\* the INSERT INTO users reaches the store; a rejected INSERT lands in the
\* handler's catch block
SignupInsert(q) ==
  /\ Waiting(q, "signup", "insert")
  /\ IF DuplicateEntry(q.email)
       THEN /\ last' = SignupCatch(q)
            /\ created' = Tally(SignupCatch(q))
            /\ answered' = Answered(SignupCatch(q))
            /\ inflight' = Resume(q)
            /\ UNCHANGED <<users, nextId, codeOf>>
       ELSE /\ users' = users \cup
                 {[id |-> nextId, email |-> q.email, password |-> q.hashedPassword,
                   verification_code |-> Hash(Str(q.vcode)),
                   is_verified |-> FALSE]}
            /\ nextId' = nextId + 1
            /\ codeOf' = [codeOf EXCEPT ![q.email] = q.vcode]
            /\ inflight' = Resume(q) (+) SetToBag({[q EXCEPT !.pc = "mail"]})
            /\ UNCHANGED <<last, created, answered>>
  /\ UNCHANGED <<limiterVars, recordVars, successes, connections, rev, envSecret, proc,
                 secret, babies, clock, ticks, started, issued>>

\* the response after transporter.sendMail of the welcome mail resolved (ok)
\* or rejected
SignupMailResponse(q, ok) ==
  IF ok
    THEN [Respond("signup", q.email, 201,
                  "User registered successfully! Please check your email for the verification code.",
                  NoToken, "none", clock) EXCEPT !.mail = "sent"]
    ELSE [Respond("signup", q.email, 500,
                  "User registered, but failed to send verification email",
                  NoToken, "none", clock) EXCEPT !.mail = "failed"]

\* variant of RowsAfterMailFailure: the inner catch block rolls the INSERT back
RowsAfterMailFailure_Rollback(rows, e) == {u \in rows : u.email # e}

\* the users table after the welcome mail was rejected: no statement of the
\* inner catch block touches it
RowsAfterMailFailure(rows, e) == rows

\* transporter.sendMail of the welcome mail resolves (ok) or rejects
SignupMail(q, ok) ==
  /\ Waiting(q, "signup", "mail")
  /\ inflight' = Resume(q)
  /\ last' = SignupMailResponse(q, ok)
  /\ created' = Tally(SignupMailResponse(q, ok))
  /\ users' = IF ok THEN users ELSE RowsAfterMailFailure(users, q.email)
  /\ answered' = Answered(SignupMailResponse(q, ok))
  /\ connections' = connections - 1
  /\ UNCHANGED <<limiterVars, recordVars, successes, rev, envSecret, proc,
                 secret, nextId, babies, clock, ticks, started, issued, codeOf>>

(* ---------------------------- verify-email ----------------------------- *)
\* POST /api/verify-email, from the top of the handler to the await of the
\* UPDATE: validation, SELECT by email, bcrypt.compare of the code
VerifyStart(email, code) ==
  /\ CanStart
  /\ started' = started + 1
  /\ LET rows == SelectByEmail(email.v)
         user == FirstRow(rows)
         e == IF email.t = "string" THEN email.v ELSE ""
     IN IF Falsy(email) \/ Falsy(code)
          THEN /\ last' = Respond("verify", e, 400,
                                  "Missing required fields: email, code",
                                  NoToken, "", clock)
               /\ inflight' = inflight
        ELSE IF rows = {}
          THEN /\ last' = Respond("verify", e, 404, "User not found", NoToken,
                                  "none", clock)
               /\ inflight' = inflight
        ELSE IF CompareThrows(code, user.verification_code)
          THEN /\ last' = [Respond("verify", e, 500, "Failed to verify email",
                                   NoToken, Found(rows), clock)
                             EXCEPT !.code = code.v]
               /\ inflight' = inflight
        ELSE IF ~Compare(code, user.verification_code)
          THEN /\ last' = [Respond("verify", e, 400, "Invalid verification code",
                                   NoToken, Found(rows), clock)
                             EXCEPT !.code = code.v]
               /\ inflight' = inflight
        ELSE /\ CanSuspend
             /\ inflight' = inflight (+) SetToBag({
                  Suspended("verify", "update", e, NullHash, code.v, user,
                            NoToken, Found(rows))})
             /\ last' = last
  /\ answered' = IF inflight' = inflight THEN answered + 1 ELSE answered
  /\ connections' = connections + LeftOpen(last', inflight' # inflight)
  /\ UNCHANGED <<limiterVars, recordVars, successes, rev, envSecret, proc,
                 secret, users, nextId, babies, clock, ticks, issued, created,
                 codeOf>>

\* The code leaves the server only in the welcome mail: a client presents
\* the code of an account only after that account's mail went out (which is
\* when its signup was answered 201)
Presentable(email, code) ==
  \A e \in Emails :
    (email.v = e /\ code.v = codeOf[e] /\ codeOf[e] # <<>>) => created[e] > 0

\* variant of Verified: UPDATE users SET is_verified = true WHERE email = ?
Verified_KeepsCode(rows, e) ==
  {IF u.email = e THEN [u EXCEPT !.is_verified = TRUE] ELSE u : u \in rows}

\* variant of Verified: the UPDATE has no WHERE clause
Verified_NoWhere(rows, e) ==
  {[u EXCEPT !.is_verified = TRUE, !.verification_code = NullCode] : u \in rows}

\* UPDATE users SET is_verified = true, verification_code = NULL WHERE email = ?
Verified(rows, e) ==
  {IF u.email = e
     THEN [u EXCEPT !.is_verified = TRUE, !.verification_code = NullCode]
     ELSE u : u \in rows}

\* successes, after a verify-email response
Succeeded(resp) ==
  IF resp.status = 200 THEN [successes EXCEPT ![resp.email] = @ + 1]
  ELSE successes

\* the UPDATE reaches the store; part_000 then signs the token and awaits the
\* confirmation mail, server.js answers at once
VerifyUpdate(q) ==
  /\ Waiting(q, "verify", "update")
  /\ users' = Verified(users, q.email)
  /\ IF rev = "part_000"
       THEN /\ inflight' = Resume(q) (+) SetToBag({
                 [q EXCEPT !.pc = "mail",
                           !.token = JwtSign(secret, q.user.id, q.user.email, clock)]})
            /\ UNCHANGED <<last, successes, requestVars>>
       ELSE /\ inflight' = Resume(q)
            /\ last' = [Respond("verify", q.email, 200, "Email verified successfully!",
                                NoToken, q.found, clock) EXCEPT !.code = q.vcode]
            /\ successes' = Succeeded(last')
            /\ answered' = Answered(last')
            /\ connections' = connections - 1
  /\ UNCHANGED <<limiterVars, recordVars, rev, envSecret, proc, secret, nextId,
                 babies, clock, ticks, started, issued, created, codeOf>>

\* variant of VerifyMailResponse: the rejected confirmation mail is answered
\* the way the rejected welcome mail is
VerifyMailResponse_FailsOnMail(q, ok) ==
  IF ok
    THEN [Respond("verify", q.email, 200,
                  "Email verified successfully! You're now logged in.",
                  q.token, q.found, clock)
            EXCEPT !.code = q.vcode, !.mail = "sent"]
    ELSE [Respond("verify", q.email, 500, "Failed to verify email",
                  NoToken, q.found, clock)
            EXCEPT !.code = q.vcode, !.mail = "failed"]

\* the response after transporter.sendMail of the confirmation mail resolved
\* (ok) or rejected: the inner catch block only logs, res.status(200) follows
\* either way
VerifyMailResponse(q, ok) ==
  [Respond("verify", q.email, 200,
           "Email verified successfully! You're now logged in.",
           q.token, q.found, clock)
     EXCEPT !.code = q.vcode, !.mail = IF ok THEN "sent" ELSE "failed"]

\* transporter.sendMail of the confirmation mail resolves (ok) or rejects; the
\* rejection is logged and the handler goes on
VerifyMail(q, ok) ==
  /\ Waiting(q, "verify", "mail")
  /\ inflight' = Resume(q)
  /\ last' = VerifyMailResponse(q, ok)
  /\ issued' = IF VerifyMailResponse(q, ok).token = NoToken
                 THEN issued ELSE issued \cup {q.token}
  /\ successes' = Succeeded(VerifyMailResponse(q, ok))
  /\ answered' = Answered(VerifyMailResponse(q, ok))
  /\ connections' = connections - 1
  /\ UNCHANGED <<limiterVars, recordVars, rev, envSecret, proc, secret, users,
                 nextId, babies, clock, ticks, started, created, codeOf>>

(* -------------------------------- login -------------------------------- *)
\* variant of LoginResponse without the is_verified test
LoginResponse_NoVerifiedTest(email, password) ==
  LET rows == SelectByEmail(email.v)
      user == FirstRow(rows)
      e == IF email.t = "string" THEN email.v ELSE ""
      p == IF password.t = "undefined" THEN "" ELSE password.v
      r == IF Falsy(email) \/ Falsy(password)
             THEN Respond("login", e, 400, "Missing required fields: email, password",
                          NoToken, "", clock)
           ELSE IF rows = {}
             THEN Respond("login", e, 401, "Invalid email or password", NoToken,
                          "none", clock)
           ELSE IF CompareThrows(password, user.password)
             THEN Respond("login", e, 500, "Failed to login", NoToken, Found(rows), clock)
           ELSE IF ~Compare(password, user.password)
             THEN Respond("login", e, 401, "Invalid email or password", NoToken,
                          Found(rows), clock)
           ELSE Respond("login", e, 200, "Login successful",
                        JwtSign(secret, user.id, user.email, clock), Found(rows), clock)
  IN [r EXCEPT !.pw = p]

\* the response of POST /api/login to a body { email, password }
LoginResponse(email, password) ==
  LET rows == SelectByEmail(email.v)
      user == FirstRow(rows)
      e == IF email.t = "string" THEN email.v ELSE ""
      p == IF password.t = "undefined" THEN "" ELSE password.v
      r == IF Falsy(email) \/ Falsy(password)
             THEN Respond("login", e, 400, "Missing required fields: email, password",
                          NoToken, "", clock)
           ELSE IF rows = {}
             THEN Respond("login", e, 401, "Invalid email or password", NoToken,
                          "none", clock)
           ELSE IF ~user.is_verified
             THEN Respond("login", e, 403, "Please verify your email before logging in",
                          NoToken, Found(rows), clock)
           ELSE IF CompareThrows(password, user.password)
             THEN Respond("login", e, 500, "Failed to login", NoToken, Found(rows), clock)
           ELSE IF ~Compare(password, user.password)
             THEN Respond("login", e, 401, "Invalid email or password", NoToken,
                          Found(rows), clock)
           ELSE Respond("login", e, 200, "Login successful",
                        JwtSign(secret, user.id, user.email, clock), Found(rows), clock)
  IN [r EXCEPT !.pw = p]

\* POST /api/login: nothing after the SELECT reads or writes shared state
Login(email, password) ==
  /\ CanStart
  /\ started' = started + 1
  /\ last' = LoginResponse(email, password)
  /\ issued' = IF last'.status = 200 THEN issued \cup {last'.token} ELSE issued
  /\ answered' = Answered(LoginResponse(email, password))
  /\ connections' = connections + LeftOpen(last', FALSE)
  /\ UNCHANGED <<limiterVars, recordVars, successes, rev, envSecret, proc,
                 secret, users, nextId, babies, inflight, clock, ticks, created,
                 codeOf>>

(* ------------------------------ auth gate ------------------------------ *)
\* a token whose payload was edited after signing
Tamper(t) == [t EXCEPT !.userId = t.userId + 1]
\* a token that lost its last character
Truncate(t) == [t EXCEPT !.sig = SubSeq(t.sig, 1, Len(t.sig) - 1)]

\* Authorization headers a client can send: none, garbage, a token it was
\* given, an edited or truncated copy of one, or a token it signed itself
\* with the secret published in server.js
Headers ==
  {<<"absent", NoToken>>, <<"malformed", Malformed>>,
   <<"forged", JwtSign(DefaultSecret, 1, "ama@x.com", clock)>>}
    \cup {<<"issued", t>> : t \in issued}
    \cup {<<"tampered", Tamper(t)>> : t \in issued}
    \cup {<<"truncated", Truncate(t)>> : t \in issued}

\* the Authorization headers of clients that are logged in or send none
SessionHeaders == {<<"absent", NoToken>>} \cup {<<"issued", t>> : t \in issued}

\* variant of AuthenticateToken: the callback of jwt.verify ignores err
AuthenticateToken_IgnoresErr(token, now) ==
  IF token.form = "none" THEN 401 ELSE 0

\* authenticateToken: the status it answers with, 0 when it calls next()
AuthenticateToken(token, now) ==
  IF token.form = "none" THEN 401
  ELSE IF ~JwtVerify(token, secret, now) THEN 403
  ELSE 0

\* req.user = user
Claims(token) == [userId |-> token.userId, email |-> token.email]

\* POST /api/babies behind authenticateToken; bodyOk says whether the body
\* passes the handler's field checks
AddBaby(h, bodyOk) ==
  /\ CanStart
  /\ started' = started + 1
  /\ LET gate == AuthenticateToken(h[2], clock)
         base == [NoResponse EXCEPT !.op = "babies", !.hdr = h[2],
                                    !.hkind = h[1], !.at = clock]
     IN IF gate # 0
          THEN /\ last' = [base EXCEPT !.status = gate,
                                       !.message = IF gate = 401
                                                     THEN "Access token required"
                                                     ELSE "Invalid token"]
               /\ babies' = babies
        ELSE IF ~bodyOk
          THEN /\ last' = [base EXCEPT !.status = 400, !.ran = TRUE,
                                       !.identity = Claims(h[2]),
                                       !.message = "Missing required fields: name, birth_date, gender"]
               /\ babies' = babies
        ELSE /\ last' = [base EXCEPT !.status = 201, !.ran = TRUE,
                                     !.identity = Claims(h[2]),
                                     !.message = "Baby profile added!"]
             /\ babies' = babies \cup
                  {[id |-> Cardinality(babies) + 1, user_id |-> Claims(h[2]).userId]}
  /\ answered' = answered + 1
  /\ UNCHANGED <<limiterVars, recordVars, successes, connections, rev, envSecret, proc,
                 secret, users, nextId, inflight, clock, ticks, issued, created,
                 codeOf>>

(* -------------------------- protected routes --------------------------- *)
\* the ids of the babies of user u: SELECT id FROM babies WHERE user_id = ?
BabiesOf(u) == {b.id : b \in {x \in babies : x.user_id = u}}

\* baby_id values a request body carries: the id of a baby that exists, or
\* none
BabyIds == {b.id : b \in babies} \cup {0}

\* POST /api/schedules and POST /api/milestones behind authenticateToken:
\* INSERT INTO <table> (baby_id, ...) VALUES (?, ...) with the body's baby_id.
\* by is not a column: it records whose token the request carried.
AddRecord(table, h, baby_id) ==
  /\ proc = "listening"
  /\ Cardinality(records) < MaxRecords
  /\ LET gate == AuthenticateToken(h[2], clock)
         base == [NoResponse EXCEPT !.op = table, !.hdr = h[2],
                                    !.hkind = h[1], !.at = clock]
     IN IF gate # 0
          THEN /\ last' = [base EXCEPT !.status = gate,
                                       !.message = IF gate = 401
                                                     THEN "Access token required"
                                                     ELSE "Invalid token"]
               /\ records' = records
        ELSE IF baby_id = 0
          THEN /\ last' = [base EXCEPT !.status = 400, !.ran = TRUE,
                                       !.identity = Claims(h[2]),
                                       !.message = "Missing required fields"]
               /\ records' = records
        ELSE /\ last' = [base EXCEPT !.status = 201, !.ran = TRUE,
                                     !.identity = Claims(h[2]),
                                     !.message = "added"]
             /\ records' = records \cup
                  {[table |-> table, id |-> Cardinality(records) + 1,
                    baby_id |-> baby_id, by |-> Claims(h[2]).userId]}
  /\ UNCHANGED <<limiterVars, listing, successes, requestVars, rev, envSecret, proc, secret,
                 users, nextId, babies, inflight, clock, ticks, started, issued,
                 created, codeOf>>

\* GET /api/schedules and GET /api/milestones behind authenticateToken:
\* SELECT ... FROM <table> WHERE baby_id IN (SELECT id FROM babies WHERE
\* user_id = ?) with req.user.userId.  server.js has no such route.
ListRecords(table, h) ==
  /\ proc = "listening"
  /\ LET gate == AuthenticateToken(h[2], clock)
         base == [NoResponse EXCEPT !.op = table, !.hdr = h[2],
                                    !.hkind = h[1], !.at = clock]
     IN IF rev = "server.js"
          THEN /\ last' = [base EXCEPT !.status = 404]
               /\ listing' = listing
        ELSE IF gate # 0
          THEN /\ last' = [base EXCEPT !.status = gate,
                                       !.message = IF gate = 401
                                                     THEN "Access token required"
                                                     ELSE "Invalid token"]
               /\ listing' = listing
        ELSE /\ last' = [base EXCEPT !.status = 200, !.ran = TRUE,
                                     !.identity = Claims(h[2])]
             /\ listing' = [table |-> table, userId |-> Claims(h[2]).userId,
                            rows |-> {r \in records :
                                        /\ r.table = table
                                        /\ r.baby_id \in BabiesOf(Claims(h[2]).userId)}]
  /\ UNCHANGED <<limiterVars, records, successes, requestVars, rev, envSecret, proc, secret,
                 users, nextId, babies, inflight, clock, ticks, started, issued,
                 created, codeOf>>

(* ---------------------------- rate limiter ----------------------------- *)
\* variant of Limited: app.post("/api/contact", async ...) without the
\* limiter argument
Limited_ContactOpen(route) ==
  /\ rev = "part_000"
  /\ route \in {"/api/signup", "/api/login", "/api/verify-email"}

\* the routes the limiter is mounted on: app.use(path, limiter) for signup,
\* login and verify-email, the second argument of app.post for contact;
\* server.js mounts no limiter
Limited(route) ==
  /\ rev = "part_000"
  /\ route \in {"/api/signup", "/api/login", "/api/verify-email", "/api/contact"}

\* the window of key k has elapsed (or never began) at time now (seconds)
Elapsed(k, now) ==
  \/ windowStart[k] = NoWindow
  \/ (now - windowStart[k]) * 1000 >= LimiterOptions.windowMs

\* allow(clientKey): the hit number of this request in the key's window, one
\* atomic increment that begins a new window when the old one has elapsed
TotalHits(k, now) == IF Elapsed(k, now) THEN 1 ELSE hits[k] + 1

\* the limiter's decision on a request to a route it is mounted on: with n
\* the request's hit number, answer 429 or call next(), which runs the
\* route's handler
Decide(route, n) ==
  [NoDecision EXCEPT !.route = route, !.counted = TRUE, !.n = n,
                     !.status = IF n > LimiterOptions.max THEN 429 ELSE 0,
                     !.ran = ~(n > LimiterOptions.max)]

\* the requests followed: one key at a time is taken up to and past the
\* ceiling, while every other key holds at most MaxOver hits or has reached
\* the ceiling already
Followed(k, n) ==
  /\ n <= LimiterOptions.max + MaxOver
  /\ \/ n <= MaxOver
     \/ \A j \in Keys \ {k} : hits[j] <= MaxOver \/ hits[j] >= LimiterOptions.max

\* one request of a client to a route: the limiter, where mounted, counts
\* it and decides; elsewhere the handler runs
Request(client, route) ==
  /\ proc = "listening"
  /\ IF Limited(route)
       THEN LET k == KeyOf(client)
                n == TotalHits(k, clock)
                d == Decide(route, n)
            IN /\ Followed(k, n)
               /\ hits' = [hits EXCEPT ![k] = n]
               /\ windowStart' = [windowStart EXCEPT
                    ![k] = IF Elapsed(k, clock) THEN clock ELSE @]
               /\ decision' = [d EXCEPT !.client = client,
                                        !.wasOver = /\ Elapsed(k, clock)
                                                    /\ hits[k] > LimiterOptions.max]
               /\ admitted' = [admitted EXCEPT
                    ![k] = (IF Elapsed(k, clock) THEN 0 ELSE @)
                             + (IF d.ran THEN 1 ELSE 0)]
       ELSE /\ decision' = [NoDecision EXCEPT !.client = client,
                                              !.route = route, !.ran = TRUE]
            /\ UNCHANGED <<hits, windowStart, admitted>>
  /\ UNCHANGED <<recordVars, successes, requestVars, rev, envSecret, proc, secret, users,
                 nextId, babies, inflight, last, clock, ticks, started, issued,
                 created, codeOf>>

\* time passes between two requests
Elapse(d) ==
  /\ proc = "listening"
  /\ ticks < MaxElapses
  /\ clock' = clock + d
  /\ ticks' = ticks + 1
  /\ UNCHANGED <<limiterVars, recordVars, successes, requestVars, rev, envSecret, proc,
                 secret, users, nextId, babies, inflight, last, started, issued,
                 created, codeOf>>

(* ---------------------------- specification ---------------------------- *)
Next ==
  \/ Boot
  \/ \E d \in TickSteps : Tick(d)
  \/ \E name \in NameInputs, email \in EmailInputs,
        password \in SignupPasswords, r \in Randoms :
       SignupStart(name, email, password, r)
  \/ \E q \in BagToSet(inflight) : SignupInsert(q)
  \/ \E q \in BagToSet(inflight), ok \in BOOLEAN : SignupMail(q, ok)
  \/ \E email \in EmailInputs, code \in CodeInputs :
       Presentable(email, code) /\ VerifyStart(email, code)
  \/ \E q \in BagToSet(inflight) : VerifyUpdate(q)
  \/ \E q \in BagToSet(inflight), ok \in BOOLEAN : VerifyMail(q, ok)
  \/ \E email \in EmailInputs, password \in LoginPasswords : Login(email, password)
  \/ \E h \in Headers, bodyOk \in BOOLEAN : AddBaby(h, bodyOk)

Spec == Init /\ [][Next]_vars

\* every await settles: the store, the hasher and the mail gateway return or
\* throw, and the event loop resumes the handler that waits for them
Settles ==
  /\ WF_vars(\E q \in BagToSet(inflight) : SignupInsert(q))
  /\ WF_vars(\E q \in BagToSet(inflight), ok \in BOOLEAN : SignupMail(q, ok))
  /\ WF_vars(\E q \in BagToSet(inflight) : VerifyUpdate(q))
  /\ WF_vars(\E q \in BagToSet(inflight), ok \in BOOLEAN : VerifyMail(q, ok))

\* the three account operations alone
NextAccounts ==
  \/ Boot
  \/ \E name \in NameInputs, email \in EmailInputs,
        password \in SignupPasswords, r \in Randoms :
       SignupStart(name, email, password, r)
  \/ \E q \in BagToSet(inflight) : SignupInsert(q)
  \/ \E q \in BagToSet(inflight), ok \in BOOLEAN : SignupMail(q, ok)
  \/ \E email \in EmailInputs, code \in CodeInputs :
       Presentable(email, code) /\ VerifyStart(email, code)
  \/ \E q \in BagToSet(inflight) : VerifyUpdate(q)
  \/ \E q \in BagToSet(inflight), ok \in BOOLEAN : VerifyMail(q, ok)
  \/ \E email \in EmailInputs, password \in LoginPasswords : Login(email, password)

SpecSettles == Init /\ [][NextAccounts]_vars /\ Settles

\* the rate limiter in front of the routes.  Spec starts at most MaxRequests
\* requests, fewer than LimiterOptions.max, all of which the limiter lets
\* through; the limiter's own behaviour is explored here
NextLimiter ==
  \/ Boot
  \/ \E d \in WindowSteps : Elapse(d)
  \/ \E client \in Clients, route \in Routes : Request(client, route)

SpecLimiter == Init /\ [][NextLimiter]_vars

\* clients that spend the allowance of a window on signup alone and turn to
\* the other routes once it is used up
NextShared ==
  \/ Boot
  \/ \E d \in WindowSteps : Elapse(d)
  \/ \E client \in Clients, route \in Routes :
       /\ TotalHits(KeyOf(client), clock) <= LimiterOptions.max
            => route = "/api/signup"
       /\ Request(client, route)

SpecShared == Init /\ [][NextShared]_vars

\* signup alone, with bodies whose fields have the wrong length among them
NextSignup ==
  \/ Boot
  \/ \E name \in LongNameInputs, email \in EmailInputs,
        password \in ShortPasswordInputs, r \in Randoms :
       SignupStart(name, email, password, r)
  \/ \E q \in BagToSet(inflight) : SignupInsert(q)
  \/ \E q \in BagToSet(inflight), ok \in BOOLEAN : SignupMail(q, ok)

SpecSignup == Init /\ [][NextSignup]_vars

\* the verification code over the values of Math.random(): one Signup at a
\* time into the empty table, each with a value of its own
NextCodes ==
  \/ Boot
  \/ \E r \in CodeRandoms :
       /\ inflight = EmptyBag /\ users = {}
       /\ SignupStart(Str("Ama"), Str("ama@x.com"), Str("password1"), r)
  \/ \E q \in BagToSet(inflight) : SignupInsert(q)
  \/ \E q \in BagToSet(inflight), ok \in BOOLEAN : SignupMail(q, ok)

SpecCodes == Init /\ [][NextCodes]_vars

\* the protected routes, from the state in which both accounts are active
\* and each client holds the token a login at time 0 gave it
InitRecords ==
  /\ rev \in Revisions
  /\ envSecret = "s3cr3t"
  /\ proc = "listening"
  /\ secret = "s3cr3t"
  /\ users = {[id |-> 1, email |-> "ama@x.com", password |-> Hash(Str("password1")),
               verification_code |-> NullCode, is_verified |-> TRUE],
              [id |-> 2, email |-> "kofi@x.com", password |-> Hash(Str("password1")),
               verification_code |-> NullCode, is_verified |-> TRUE]}
  /\ nextId = 3
  /\ babies = {}
  /\ inflight = EmptyBag
  /\ last = NoResponse
  /\ clock = 0
  /\ ticks = 0
  /\ started = 0
  /\ issued = {JwtSign("s3cr3t", 1, "ama@x.com", 0),
               JwtSign("s3cr3t", 2, "kofi@x.com", 0)}
  /\ created = [e \in Emails |-> 1]
  /\ codeOf = [e \in Emails |-> GenCode(<<0, 2000>>)]
  /\ hits = [k \in Keys |-> 0]
  /\ windowStart = [k \in Keys |-> NoWindow]
  /\ decision = NoDecision
  /\ admitted = [k \in Keys |-> 0]
  /\ records = {}
  /\ listing = NoListing
  /\ successes = [e \in Emails |-> 1]
  /\ answered = 0
  /\ connections = 0

NextRecords ==
  \/ \E h \in SessionHeaders, bodyOk \in BOOLEAN : AddBaby(h, bodyOk)
  \/ \E table \in Tables, h \in SessionHeaders, baby_id \in BabyIds :
       AddRecord(table, h, baby_id)
  \/ \E table \in Tables, h \in SessionHeaders : ListRecords(table, h)

SpecRecords == InitRecords /\ [][NextRecords]_vars

(* ------------------------------ properties ----------------------------- *)
Conflict(resp) == resp.status = 400 /\ resp.message = "Email already registered"
Account(e) == FirstRow(SelectByEmail(e))

\* C1: of the Signup requests that carry the same email, whatever the
\* interleaving of their SELECTs and INSERTs, at most one is answered 201 and
\* the users table holds at most one row with that email.
C1_AtMostOneCreated ==
  \A e \in Emails : created[e] <= 1 /\ Cardinality(SelectByEmail(e)) <= 1

\* two signups for one email both passed the existence check; one was
\* answered 201, the INSERT of the other was rejected
C1_Witness ==
  /\ last.op = "signup" /\ last.found = "duplicate"
  /\ created[last.email] = 1

\* C2: a Signup whose INSERT is rejected by the uniqueness constraint after
\* its own existence check found nothing is answered like a Signup for an
\* email that was registered before: 400 "Email already registered".
C2_DuplicateIsConflict ==
  (last.op = "signup" /\ last.found = "duplicate") => Conflict(last)

\* C3: in every reachable state every row with is_verified = true has
\* verification_code NULL, and every row that enters the table enters it with
\* is_verified = false and a code hash.
C3_VerifiedHasNoCode ==
  /\ [](\A u \in users : u.is_verified => u.verification_code = NullCode)
  /\ [][\A u \in users' :
          (\A w \in users : w.id # u.id) =>
            (~u.is_verified /\ u.verification_code.t = "hash")]_vars

\* one account is active and another still pending
C3_Witness ==
  \E u, w \in users : u.is_verified /\ ~w.is_verified

\* C4: a VerifyEmail for an account that is already active, carrying the code
\* generated at its signup, is answered 400 "Invalid verification code" and
\* the account stays active.
C4_SecondVerifyInvalidCode ==
  (last.op = "verify" /\ last.found = "active" /\ last.code = codeOf[last.email])
    => /\ last.status = 400
       /\ last.message = "Invalid verification code"
       /\ Account(last.email).is_verified

\* C5: a Login that finds a pending account is answered 403 without a token,
\* whatever the password; and every token handed out names an active account.
C5_PendingLoginNotVerified ==
  /\ (last.op = "login" /\ last.found = "pending")
       => (last.status = 403 /\ last.token = NoToken)
  /\ \A t \in issued : \E u \in users : u.id = t.userId /\ u.is_verified

\* a Login with the password of the signup, for an account still pending
C5_Witness ==
  /\ last.op = "login" /\ last.found = "pending" /\ last.status = 403
  /\ Compare(Str(last.pw), Account(last.email).password)

\* C6: the handler behind the Auth Gate runs only when the gate accepted the
\* token.  No token: 401.  A malformed, edited, truncated or expired token:
\* 403.  In both cases the handler does not run and no table changes.  When
\* the handler runs, req.user is the userId and email of the presented token.
C6_GateBeforeHandler ==
  /\ [](last.op = "babies" =>
          /\ last.hkind = "absent" => (last.status = 401 /\ ~last.ran)
          /\ (\/ last.hkind \in {"malformed", "tampered", "truncated"}
              \/ last.hkind = "issued" /\ last.at > last.hdr.iat + ExpiresIn)
               => (last.status = 403 /\ ~last.ran)
          /\ last.ran =>
               /\ last.status \notin {401, 403}
               /\ JwtVerify(last.hdr, secret, last.at)
               /\ last.identity = [userId |-> last.hdr.userId,
                                   email |-> last.hdr.email])
  /\ [][(started' # started /\ last'.op = "babies" /\ last'.status \in {401, 403})
          => (~last'.ran /\ babies' = babies /\ users' = users)]_vars

\* a token short of its last character was presented and refused
C6_Witness ==
  /\ last.op = "babies" /\ last.hkind = "truncated"
  /\ last.status = 403 /\ ~last.ran

\* C7: a token issued at time T passes the Auth Gate at every time before
\* T + 1 hour and is answered 403 at every time after T + 1 hour; every token
\* handed out expires one hour after it was issued.
C7_TokenLifetime ==
  /\ (last.op = "babies" /\ last.hkind = "issued") =>
       /\ last.at < last.hdr.iat + 3600 => last.ran
       /\ last.at > last.hdr.iat + 3600 => (last.status = 403 /\ ~last.ran)
  /\ \A t \in issued : t.exp = t.iat + 3600

\* a token is presented 61 minutes after it was issued and refused
C7_Witness ==
  /\ last.op = "babies" /\ last.hkind = "issued"
  /\ last.at = last.hdr.iat + 3660 /\ last.status = 403

\* C8: with no JWT_SECRET in the environment the process never listens and
\* never has a secret to sign or verify with.
C8_NoSecretNoService ==
  envSecret = "" => (proc # "listening" /\ secret = "")

\* C9: when the welcome mail of a Signup is rejected after the INSERT, the row
\* stays in the table, pending, the request is answered 500 "User registered,
\* but failed to send verification email", no row ever leaves the table, and
\* a Signup that finds a row for its email is answered 400 "Email already
\* registered".
C9_NotificationFailure ==
  /\ []((last.op = "signup" /\ last.mail = "failed") =>
          /\ last.status = 500
          /\ last.message = "User registered, but failed to send verification email"
          /\ \E u \in users : u.email = last.email /\ ~u.is_verified)
  /\ []((last.op = "signup" /\ last.found \in {"pending", "active"})
          => Conflict(last))
  /\ [][\A u \in users : \E w \in users' : w.id = u.id /\ w.email = u.email]_vars

\* a Signup is answered Conflict for an email whose only earlier Signup wrote
\* the row and then lost its welcome mail
C9_Witness ==
  /\ last.op = "signup" /\ Conflict(last) /\ last.found = "pending"
  /\ created[last.email] = 0
  /\ inflight = EmptyBag

\* C10: a VerifyEmail answered 200 leaves the account active with its code
\* hash cleared and carries a token with the account's id and email that the
\* Auth Gate accepts at that moment.
C10_VerifyAnswersToken ==
  (last.op = "verify" /\ last.status = 200) =>
    /\ SelectByEmail(last.email) # {}
    /\ Account(last.email).is_verified
    /\ Account(last.email).verification_code = NullCode
    /\ last.token.userId = Account(last.email).id
    /\ last.token.email = last.email
    /\ AuthenticateToken(last.token, last.at) = 0

\* C11: a VerifyEmail whose code check and UPDATE succeeded and whose
\* confirmation mail was attempted is answered 200 with a token the Auth Gate
\* accepts, for the account that is now active, whether the mail was
\* delivered or rejected.
C11_ConfirmationMailBestEffort ==
  (last.op = "verify" /\ last.mail \in {"sent", "failed"}) =>
    /\ last.status = 200
    /\ last.message = "Email verified successfully! You're now logged in."
    /\ last.token # NoToken
    /\ last.token.userId = Account(last.email).id
    /\ AuthenticateToken(last.token, last.at) = 0
    /\ Account(last.email).is_verified

\* a VerifyEmail is answered 200 with a token after its confirmation mail was
\* rejected
C11_Witness ==
  /\ last.op = "verify" /\ last.mail = "failed"
  /\ last.status = 200 /\ last.token # NoToken

\* C12: a request to a rate-limited route is admitted when it is one of the
\* first 100 of its client's 15-minute window and answered 429, without its
\* handler running, when it is the 101st or a later one; it is numbered one
\* more than the client's previous request of the same window, and is
\* number 1 of a new window, hence admitted, once 15 minutes or more have
\* passed since the window began.
C12_WindowCeiling ==
  /\ [](decision.counted =>
          /\ decision.n >= 1
          /\ (decision.n <= 100 => decision.status = 0 /\ decision.ran)
          /\ (decision.n > 100 => decision.status = 429 /\ ~decision.ran))
  /\ [][\A k \in Keys :
          (hits'[k] # hits[k] \/ windowStart'[k] # windowStart[k]) =>
            /\ decision'.counted /\ decision'.n = hits'[k]
            /\ IF windowStart[k] # NoWindow /\ clock - windowStart[k] < 15 * 60
                 THEN hits'[k] = hits[k] + 1 /\ windowStart'[k] = windowStart[k]
                 ELSE hits'[k] = 1 /\ windowStart'[k] = clock]_vars

\* a client that was answered 429 in one window is admitted as number 1 of
\* its next window, 15 minutes after the first began
C12_Witness ==
  /\ decision.counted /\ decision.wasOver
  /\ decision.n = 1 /\ decision.status = 0 /\ decision.ran
  /\ clock = 15 * 60

\* C13: a request is counted by the limiter exactly when its route is signup,
\* login, verify-email or contact; a counted request over the ceiling is
\* answered 429 and its handler does not run; a request to any other route
\* is never counted or answered 429.
C13_GatedRoutes ==
  decision.route # "" =>
    /\ decision.counted <=>
          decision.route \in {"/api/signup", "/api/login", "/api/verify-email",
                              "/api/contact"}
    /\ decision.status = 429 => decision.counted /\ ~decision.ran
    /\ ~decision.counted => decision.status = 0 /\ decision.ran

\* C14: a Login for an email with no account and a Login for an active
\* account with a password that is not the account's are answered alike:
\* 401 with the message "Invalid email or password".
C14_LoginIndistinguishable ==
  (/\ last.op = "login" /\ last.pw # ""
   /\ \/ last.found = "none"
      \/ /\ last.found = "active"
         /\ Account(last.email).password.plain # last.pw)
    => /\ last.status = 401
       /\ last.message = "Invalid email or password"
       /\ last.token = NoToken

\* C15: every schedule or milestone row hangs on a baby of the user whose
\* token the creating request carried, and a listing answered to a user holds
\* only rows that user's own requests created.
C15_NoCrossUserRecords ==
  /\ \A r \in records : r.baby_id \in BabiesOf(r.by)
  /\ \A r \in listing.rows : r.by = listing.userId

\* the body of a Signup fails validation: a field is missing, the email is
\* not of the local@domain shape, the name or the email is longer than 255
\* characters or the password is shorter than 8
InvalidBody(name, email, password) ==
  \/ name.t = "undefined" \/ email.t = "undefined" \/ password.t = "undefined"
  \/ email.t = "string" /\ email.v \notin Emails
  \/ name.t = "string" /\ Length(name) > 255
  \/ email.t = "string" /\ Length(email) > 255
  \/ password.t = "string" /\ Length(password) < 8

\* C16: a Signup whose body fails validation is answered 400 at once: the
\* request is not suspended at the INSERT (so no account is created and no
\* mail is sent for it) and the users table is unchanged.
C16_SignupValidation ==
  [][\A name \in LongNameInputs, email \in EmailInputs,
       password \in ShortPasswordInputs, r \in Randoms :
        (InvalidBody(name, email, password)
           /\ SignupStart(name, email, password, r))
          => /\ last'.op = "signup" /\ last'.status = 400
             /\ inflight' = inflight /\ users' = users]_vars

\* C17: a VerifyEmail that finds a pending account and carries a code other
\* than the one generated at that account's signup is answered 400 "Invalid
\* verification code" without a token, and leaves the users table as it was:
\* the account is still pending and the generated code still matches its
\* stored hash.
C17_WrongCodeRejected ==
  [][(/\ last' # last
      /\ last'.op = "verify" /\ last'.found = "pending"
      /\ last'.code # <<>> /\ last'.code # codeOf[last'.email])
       => /\ last'.status = 400
          /\ last'.message = "Invalid verification code"
          /\ last'.token = NoToken
          /\ users' = users
          /\ ~Account(last'.email).is_verified
          /\ Compare(Str(codeOf[last'.email]),
                     Account(last'.email).verification_code)]_vars

\* C18: an account that is active stays active: no step of Signup,
\* VerifyEmail or Login turns is_verified of an existing row back to false or
\* removes the row.
C18_ActiveStaysActive ==
  [][\A u \in users :
       u.is_verified =>
         \E w \in users' : w.id = u.id /\ w.email = u.email /\ w.is_verified]_vars

\* a Signup for the email of an active account has been answered, one that
\* even got as far as its INSERT, and the account is still active
C18_Witness ==
  /\ last.op = "signup" /\ last.found = "duplicate"
  /\ SelectByEmail(last.email) # {}
  /\ Account(last.email).is_verified

\* C19: of the VerifyEmail requests for one account, interleaved in any
\* way, at most one is answered with success.
C19_OneTimeCode ==
  \A e \in Emails : successes[e] <= 1

\* C20: in every interleaving of the clients' requests a counted request
\* raises its own client's count by exactly one (or begins that client's
\* next window at one), no more than 100 requests of a client's window reach
\* their handler, and a request of one client leaves every other client's
\* count, window and admissions as they were.
C20_CountIntegrity ==
  /\ [](\A c \in Clients :
          /\ admitted[KeyOf(c)] <= 100
          /\ admitted[KeyOf(c)] <= hits[KeyOf(c)])
  /\ [][/\ decision'.counted /\ decision' # decision =>
            /\ hits'[KeyOf(decision'.client)]
                  \in {hits[KeyOf(decision'.client)] + 1, 1}
            /\ decision'.n = hits'[KeyOf(decision'.client)]
        /\ \A d \in Clients \ {decision'.client} :
            /\ hits'[KeyOf(d)] = hits[KeyOf(d)]
            /\ windowStart'[KeyOf(d)] = windowStart[KeyOf(d)]
            /\ admitted'[KeyOf(d)] = admitted[KeyOf(d)]]_vars

\* while one client is over the ceiling of its window, the other client's
\* first request in the same 15 minutes is admitted
C20_Witness ==
  /\ decision.counted /\ decision.n = 1 /\ decision.ran
  /\ clock = 0
  /\ \E k \in Keys : hits[k] = 101 /\ admitted[k] = 100

\* C21: every request that is started is answered exactly once: at every
\* moment the responses sent and the requests still suspended add up to the
\* requests started, and when every await settles there is, after any
\* moment, a moment at which every request started has been answered, on
\* every path, the rejected INSERT and the rejected mails among them.
C21_ExactlyOneResponse ==
  /\ [](answered + BagCardinality(inflight) = started)
  /\ []<>(answered = started)

\* every request started has been answered, the last of them a Signup whose
\* INSERT the store rejected
C21_Witness ==
  /\ started >= 2 /\ answered = started /\ inflight = EmptyBag
  /\ last.op = "signup" /\ last.found = "duplicate" /\ last.status = 500

\* C23: every connection that is open belongs to a request that has not been
\* answered yet, so that none is open once every request has been answered.
C23_ConnectionsClosed ==
  connections = BagCardinality(inflight)

\* C22: a response carries a token only when it is the 200 of a Login whose
\* password matches the stored hash of an account found active, or the 200
\* of a VerifyEmail that presented the code generated at the account's
\* signup; the account the token names is active in the store then and ever
\* after; a token is handed out only in such a response; and no response
\* with status 400, 401, 403, 404 or 500 carries one.
C22_TokenOnProvenSecret ==
  /\ [](last.token # NoToken =>
          /\ last.status = 200
          /\ \/ /\ last.op = "login" /\ last.found = "active"
                /\ Compare(Str(last.pw), Account(last.email).password)
             \/ /\ last.op = "verify"
                /\ last.code # <<>> /\ last.code = codeOf[last.email]
          /\ last.token.userId = Account(last.email).id
          /\ last.token.email = last.email
          /\ Account(last.email).is_verified)
  /\ [](last.status \in {400, 401, 403, 404, 500} => last.token = NoToken)
  /\ [](\A t \in issued :
          \E u \in users : u.id = t.userId /\ u.email = t.email /\ u.is_verified)
  /\ [][issued' # issued =>
          /\ last'.token # NoToken
          /\ issued' = issued \cup {last'.token}
          /\ \E u \in users' : u.id = last'.token.userId /\ u.is_verified]_vars

\* a Login with the account's password is answered 200 with a token the
\* Auth Gate accepts, for an account that one VerifyEmail made active
C22_Witness ==
  /\ last.op = "login" /\ last.status = 200 /\ last.token \in issued
  /\ JwtVerify(last.token, secret, clock)
  /\ successes[last.email] = 1
  /\ Account(last.email).is_verified

\* the users table after the UPDATE of a VerifyEmail for email e
AfterUpdate(rows, e) ==
  {IF u.email = e
     THEN [id |-> u.id, email |-> u.email, password |-> u.password,
           verification_code |-> NullCode, is_verified |-> TRUE]
     ELSE u : u \in rows}

\* C24: the users table changes only by the INSERT of a Signup that passed
\* validation and found no row for its email (one new row, pending, for that
\* email) and by the UPDATE of a VerifyEmail whose code matched (the row of
\* that email alone); a step that answers a Login, or answers 400, 401, 403
\* or 404, leaves the table as it was; no row is ever removed or has its
\* id, email or password changed.
C24_StoreFrame ==
  [][/\ users' # users =>
          \/ \E q \in BagToSet(inflight) :
                /\ q.op = "signup" /\ q.pc = "insert"
                /\ SelectByEmail(q.email) = {}
                /\ \E u \in users' \ users :
                      /\ users' = users \cup {u}
                      /\ u.email = q.email /\ ~u.is_verified
                      /\ u.password = q.hashedPassword
          \/ \E q \in BagToSet(inflight) :
                /\ q.op = "verify" /\ q.pc = "update"
                /\ users' = AfterUpdate(users, q.email)
     /\ (/\ started' # started \/ last' # last
         /\ last'.op = "login" \/ last'.status \in {400, 401, 403, 404})
          => users' = users
     /\ \A u \in users :
          \E w \in users' :
            w.id = u.id /\ w.email = u.email /\ w.password = u.password]_vars

\* a Login with a wrong password for an active account, the only row of the
\* table, has been answered 401
C24_Witness ==
  /\ last.op = "login" /\ last.status = 401 /\ last.found = "active"
  /\ users = {Account(last.email)}
  /\ Account(last.email).is_verified

\* C25: the code hash of a row is the hash of the code generated by the
\* Signup that inserted the row, until the UPDATE of a VerifyEmail clears it;
\* the code generated for an email is never replaced by another; a Signup
\* generates a code only when it found no row for its email, and a welcome
\* mail is sent only by the Signup whose INSERT created the row, with that
\* row's code: so once a welcome mail has failed, no request has a code
\* generated or sent for that account.
C25_CodeFixedAtSignup ==
  /\ [](\A u \in users :
          \/ u.verification_code = Hash(Str(codeOf[u.email])) /\ ~u.is_verified
          \/ u.verification_code = NullCode /\ u.is_verified)
  /\ [](\A q \in BagToSet(inflight) :
          (q.op = "signup" /\ q.pc = "mail") =>
            /\ q.vcode = codeOf[q.email]
            /\ created[q.email] = 0)
  /\ [][/\ \A e \in Emails : codeOf[e] # <<>> => codeOf'[e] = codeOf[e]
        /\ \A u \in users :
             \E w \in users' :
               /\ w.id = u.id
               /\ \/ w.verification_code = u.verification_code
                  \/ /\ w.verification_code = NullCode /\ w.is_verified
                     /\ \E q \in BagToSet(inflight) :
                          q.op = "verify" /\ q.pc = "update" /\ q.email = u.email
        /\ \A q \in BagToSet(inflight') :
             (/\ CopiesIn(q, inflight') > CopiesIn(q, inflight)
              /\ q.op = "signup")
               => \/ q.pc = "insert" /\ SelectByEmail(q.email) = {}
                  \/ /\ q.pc = "mail" /\ SelectByEmail(q.email) = {}
                     /\ Account(q.email)'.verification_code = Hash(Str(q.vcode))]_vars

\* the welcome mail of an account failed, a later Signup for its email was
\* turned away, and the stored hash is still that of the code never sent
C25_Witness ==
  /\ last.op = "signup" /\ Conflict(last) /\ last.found = "pending"
  /\ created[last.email] = 0 /\ answered >= 2
  /\ \A q \in BagToSet(inflight) : q.email # last.email
  /\ Account(last.email).verification_code = Hash(Str(codeOf[last.email]))

\* C26: in part_000 a request to signup, login, verify-email or contact is
\* counted, whichever of the four it goes to, on the one count of its
\* client: it is numbered one more than the client's previous request to any
\* of them in the same window, and is answered 429 without its handler
\* running when that number exceeds 100.  A client whose 100 went to signup
\* is thus rejected on the other three.
C26_SharedCounter ==
  [][(/\ rev = "part_000"
      /\ decision' # decision \/ hits' # hits \/ windowStart' # windowStart
      /\ decision'.route \in {"/api/signup", "/api/login", "/api/verify-email",
                              "/api/contact"})
       => LET k == decision'.client
          IN /\ decision'.counted
             /\ hits'[k] = IF /\ windowStart[k] # NoWindow
                              /\ clock - windowStart[k] < 15 * 60
                             THEN hits[k] + 1 ELSE 1
             /\ decision'.n = hits'[k]
             /\ hits'[k] > 100 => (decision'.status = 429 /\ ~decision'.ran)]_vars

\* a client whose 100 requests of the window all went to signup is answered
\* 429 on contact
C26_Witness ==
  /\ rev = "part_000"
  /\ decision.route = "/api/contact" /\ decision.counted
  /\ decision.n = 101 /\ decision.status = 429 /\ ~decision.ran
  /\ admitted[decision.client] = 100

\* the number a sequence of decimal digits denotes
RECURSIVE FromDigits(_)
FromDigits(c) ==
  IF c = <<>> THEN 0 ELSE 10 * FromDigits(SubSeq(c, 1, Len(c) - 1)) + c[Len(c)]

\* six decimal digits that denote a number from 100000 to 999999
SixDigits(c) ==
  /\ Len(c) = 6
  /\ \A i \in 1..6 : c[i] \in 0..9
  /\ FromDigits(c) >= 100000 /\ FromDigits(c) <= 999999

\* C27: every verification code a Signup generates, hashes, stores and
\* mails is a string of exactly six decimal digits that denotes an integer
\* from 100000 to 999999, for every value of Math.random(), 0 and the
\* doubles next below 1 among them.
C27_SixDigitCode ==
  /\ \A q \in BagToSet(inflight) : q.op = "signup" => SixDigits(q.vcode)
  /\ \A e \in Emails : codeOf[e] # <<>> => SixDigits(codeOf[e])
  /\ \A u \in users :
       ~u.is_verified => u.verification_code = Hash(Str(codeOf[u.email]))

\* the code 999999 was generated, stored and mailed
C27_Witness ==
  /\ codeOf["ama@x.com"] = <<9, 9, 9, 9, 9, 9>>
  /\ last.op = "signup" /\ last.status = 201

====
